---------------------------- MODULE Spec2Model ----------------------------
(***************************************************************************)
(* Rating engine (utils/elo.js) and rating pipeline                        *)
(* (utils/ratingPipeline.js) of CodeQUEST.                                 *)
(*                                                                         *)
(* The engine works on JavaScript doubles.  Here every real number is a    *)
(* fixed-point integer with Scale units per 1, and an average is kept as   *)
(* the pair <<sum, count>> so that 0/0 (NaN) stays distinguishable.        *)
(***************************************************************************)
EXTENDS Integers, Sequences, FiniteSets, TLC

(***************************************************************************)
(* Numeric helpers                                                         *)
(***************************************************************************)
Scale == 10000

\* Marker for the double NaN: produced by 0/0 and propagated by arithmetic.
NaN == 0 - 1073741824

Max(a, b) == IF a >= b THEN a ELSE b

RECURSIVE GCD(_, _)
GCD(a, b) == IF b = 0 THEN a ELSE GCD(b, a % b)

RECURSIVE SumSeq(_)
SumSeq(s) == IF s = <<>> THEN 0 ELSE Head(s) + SumSeq(Tail(s))

Range(s) == {s[i] : i \in DOMAIN s}

\* The floor left out.
FloorZeroNoClamp(x) == x

\* Math.max(0, x) on doubles: NaN in, NaN out.
FloorZero(x) == IF x = NaN THEN NaN ELSE Max(0, x)

\* Math.round on a fixed-point value: floor(x + 0.5).
MathRound(xS) == (2 * xS + Scale) \div (2 * Scale)

\* 10^(2^-i) in fixed point, i = 1..12.
RootTable ==
  <<31623, 17783, 13335, 11548, 10746, 10366,
    10182, 10090, 10045, 10023, 10011, 10006>>

\* 10^(r/m) for 0 <= r < m, in fixed point, by the binary digits of r/m.
RECURSIVE Pow10Frac(_, _, _, _)
Pow10Frac(r, m, i, acc) ==
  IF i > Len(RootTable) \/ r = 0 THEN acc
  ELSE IF 2 * r >= m
       THEN Pow10Frac(2 * r - m, m, i + 1, (acc * RootTable[i]) \div Scale)
       ELSE Pow10Frac(2 * r, m, i + 1, acc)

RECURSIVE Pow10Int(_)
Pow10Int(q) == IF q = 0 THEN 1 ELSE 10 * Pow10Int(q - 1)

\* 1 / (1 + 10^(n/m)) for n >= 0, m > 0, in fixed point.  From 10^5 on the
\* quotient is below one fixed-point unit.
InvOnePlusPow(n, m) ==
  IF n \div m >= 5 THEN 0
  ELSE (Scale * Scale)
         \div (Scale + Pow10Int(n \div m) * Pow10Frac(n % m, m, 1, Scale))

(***************************************************************************)
(* utils/elo.js                                                            *)
(***************************************************************************)
\* One K for every rating.
getKFactorFlat(rating) == 32

\* The tier boundaries taken with <= instead of <.
getKFactorInclusive(rating) ==
  IF rating <= 800 THEN 50
  ELSE IF rating <= 1200 THEN 40
  ELSE IF rating <= 2000 THEN 32
  ELSE 16

getKFactor(rating) ==
  IF rating < 800 THEN 50
  ELSE IF rating < 1200 THEN 40
  ELSE IF rating < 2000 THEN 32
  ELSE 16

\* expected = 1 / (1 + 10^((opponentRating - playerRating) / 400)), with
\* opponentRating = opp[1] / opp[2].
ExpectedS(playerRating, opp) ==
  LET n == opp[1] - playerRating * opp[2]
      m == 400 * opp[2]
  IN  IF n >= 0 THEN InvOnePlusPow(n, m)
      ELSE Scale - InvOnePlusPow(0 - n, m)

\* The time modifier given whatever the outcome.
TimeModSAnyOutcome(outcome, solveTimeMs, matchDurationMs) ==
  IF solveTimeMs > 0 /\ matchDurationMs > 0
  THEN LET g == GCD(solveTimeMs, matchDurationMs)
           ratioS == IF solveTimeMs >= matchDurationMs THEN Scale
                     ELSE ((solveTimeMs \div g) * Scale)
                            \div (matchDurationMs \div g)
       IN  10 * Scale - 15 * ratioS
  ELSE 0

\* timeMod; outcome is the pair <<numerator, denominator>>.
TimeModS(outcome, solveTimeMs, matchDurationMs) ==
  IF outcome[1] = outcome[2] /\ solveTimeMs > 0 /\ matchDurationMs > 0
  THEN LET g == GCD(solveTimeMs, matchDurationMs)
           ratioS == IF solveTimeMs >= matchDurationMs THEN Scale
                     ELSE ((solveTimeMs \div g) * Scale)
                            \div (matchDurationMs \div g)
       IN  10 * Scale - 15 * ratioS
  ELSE 0

AttemptsModS(outcome, wrongAttempts) ==
  IF outcome[1] = outcome[2] THEN (0 - 2) * wrongAttempts * Scale
  ELSE (0 - 1) * wrongAttempts * Scale

\* K taken from the opponent's rating.
calculateEloDeltaOpponentK(playerRating, opp, outcome, solveTimeMs, matchDurationMs, wrongAttempts) ==
  IF opp[2] = 0 THEN NaN
  ELSE LET K == getKFactor(opp[1] \div opp[2])
           outcomeS == (outcome[1] * Scale) \div outcome[2]
           baseDeltaS == K * (outcomeS - ExpectedS(playerRating, opp))
       IN  MathRound(baseDeltaS
                     + TimeModS(outcome, solveTimeMs, matchDurationMs)
                     + AttemptsModS(outcome, wrongAttempts))

calculateEloDelta(playerRating, opp, outcome, solveTimeMs, matchDurationMs, wrongAttempts) ==
  IF opp[2] = 0 THEN NaN
  ELSE LET K == getKFactor(playerRating)
           outcomeS == (outcome[1] * Scale) \div outcome[2]
           baseDeltaS == K * (outcomeS - ExpectedS(playerRating, opp))
       IN  MathRound(baseDeltaS
                     + TimeModS(outcome, solveTimeMs, matchDurationMs)
                     + AttemptsModS(outcome, wrongAttempts))

AddDelta(rating, delta) == IF delta = NaN THEN NaN ELSE rating + delta

\* A solve time of 0 taken as an instant solve.
calculateEloInstantSolve(winnerRating, loserRating, solveTimeMs, matchDurationMs, winnerAttempts, loserAttempts) ==
  LET winnerDelta == calculateEloDelta(winnerRating, <<loserRating, 1>>,
                                       <<1, 1>>, Max(1, solveTimeMs),
                                       matchDurationMs, winnerAttempts)
      loserDelta == calculateEloDelta(loserRating, <<winnerRating, 1>>,
                                      <<0, 1>>, 0, matchDurationMs,
                                      loserAttempts)
  IN  [winnerDelta |-> winnerDelta,
       loserDelta |-> loserDelta,
       winnerNewRating |-> FloorZero(AddDelta(winnerRating, winnerDelta)),
       loserNewRating |-> FloorZero(AddDelta(loserRating, loserDelta))]

calculateElo(winnerRating, loserRating, solveTimeMs, matchDurationMs, winnerAttempts, loserAttempts) ==
  LET winnerDelta == calculateEloDelta(winnerRating, <<loserRating, 1>>,
                                       <<1, 1>>, solveTimeMs,
                                       matchDurationMs, winnerAttempts)
      loserDelta == calculateEloDelta(loserRating, <<winnerRating, 1>>,
                                      <<0, 1>>, 0, matchDurationMs,
                                      loserAttempts)
  IN  [winnerDelta |-> winnerDelta,
       loserDelta |-> loserDelta,
       winnerNewRating |-> FloorZero(AddDelta(winnerRating, winnerDelta)),
       loserNewRating |-> FloorZero(AddDelta(loserRating, loserDelta))]

DefaultDurationMs == 1800000

calculateDrawElo(rating1, rating2, attempts1, attempts2) ==
  LET delta1 == calculateEloDelta(rating1, <<rating2, 1>>, <<1, 2>>, 0,
                                  DefaultDurationMs, attempts1)
      delta2 == calculateEloDelta(rating2, <<rating1, 1>>, <<1, 2>>, 0,
                                  DefaultDurationMs, attempts2)
  IN  [delta1 |-> delta1,
       delta2 |-> delta2,
       newRating1 |-> FloorZero(AddDelta(rating1, delta1)),
       newRating2 |-> FloorZero(AddDelta(rating2, delta2))]

\* Each side measured against its own mean.
calculateTeamEloOwnMean(team1Ratings, team2Ratings, team1Won, team1SolveMs, matchDurationMs) ==
  LET avg1 == <<SumSeq(team1Ratings), Len(team1Ratings)>>
      avg2 == <<SumSeq(team2Ratings), Len(team2Ratings)>>
      d1(r) == calculateEloDelta(r, avg1,
                                 IF team1Won THEN <<1, 1>> ELSE <<0, 1>>,
                                 IF team1Won THEN team1SolveMs ELSE 0,
                                 matchDurationMs, 0)
      d2(r) == calculateEloDelta(r, avg2,
                                 IF team1Won THEN <<0, 1>> ELSE <<1, 1>>,
                                 IF ~team1Won THEN team1SolveMs ELSE 0,
                                 matchDurationMs, 0)
  IN  [team1 |-> [i \in DOMAIN team1Ratings |->
                    FloorZero(AddDelta(team1Ratings[i], d1(team1Ratings[i])))],
       team2 |-> [i \in DOMAIN team2Ratings |->
                    FloorZero(AddDelta(team2Ratings[i], d2(team2Ratings[i])))],
       team1Deltas |-> [i \in DOMAIN team1Ratings |-> d1(team1Ratings[i])],
       team2Deltas |-> [i \in DOMAIN team2Ratings |-> d2(team2Ratings[i])]]

\* team1Attempts and team2Attempts are never passed by the pipeline, so
\* every member's wrongAttempts is 0.
calculateTeamElo(team1Ratings, team2Ratings, team1Won, team1SolveMs, matchDurationMs) ==
  LET avg1 == <<SumSeq(team1Ratings), Len(team1Ratings)>>
      avg2 == <<SumSeq(team2Ratings), Len(team2Ratings)>>
      d1(r) == calculateEloDelta(r, avg2,
                                 IF team1Won THEN <<1, 1>> ELSE <<0, 1>>,
                                 IF team1Won THEN team1SolveMs ELSE 0,
                                 matchDurationMs, 0)
      d2(r) == calculateEloDelta(r, avg1,
                                 IF team1Won THEN <<0, 1>> ELSE <<1, 1>>,
                                 IF ~team1Won THEN team1SolveMs ELSE 0,
                                 matchDurationMs, 0)
  IN  [team1 |-> [i \in DOMAIN team1Ratings |->
                    FloorZero(AddDelta(team1Ratings[i], d1(team1Ratings[i])))],
       team2 |-> [i \in DOMAIN team2Ratings |->
                    FloorZero(AddDelta(team2Ratings[i], d2(team2Ratings[i])))],
       team1Deltas |-> [i \in DOMAIN team1Ratings |-> d1(team1Ratings[i])],
       team2Deltas |-> [i \in DOMAIN team2Ratings |-> d2(team2Ratings[i])]]

\* The position divided by the number of players instead of that less one.
BattleRoyaleOutcomePerPlayer(position, totalPlayers) ==
  <<totalPlayers - (position - 1), totalPlayers>>

\* outcome = 1 - (position - 1) / max(1, totalPlayers - 1)
BattleRoyaleOutcome(position, totalPlayers) ==
  <<Max(1, totalPlayers - 1) - (position - 1), Max(1, totalPlayers - 1)>>

calculateBattleRoyaleElo(playerRating, avgFieldRating, position, totalPlayers, solveTimeMs, matchDurationMs, wrongAttempts) ==
  LET delta == calculateEloDelta(playerRating, avgFieldRating,
                                 BattleRoyaleOutcome(position, totalPlayers),
                                 solveTimeMs, matchDurationMs, wrongAttempts)
  IN  [delta |-> delta,
       newRating |-> FloorZero(AddDelta(playerRating, delta))]


(***************************************************************************)
(* Bounds and input sets                                                   *)
(*                                                                         *)
(* Requests are those a caller builds from a finished match: the           *)
(* participants of one request are pairwise distinct, a ranking entry's    *)
(* position is its place in the list, team identifiers are listed in       *)
(* ascending order (the order the store answers in is free).  Settlement   *)
(* calls are made one after another; timestamps are the ordinal of the     *)
(* call.                                                                   *)
(***************************************************************************)
NPlayers == 3

NMatches == 1

MaxSettlements == 2

MaxTeam == 2

MaxRank == 3

Players == 1..NPlayers

\* An identifier that no player record carries.
MissingId == NPlayers + 1

\* An absent identifier (null / undefined).
NoId == 0

Ids == Players \cup {MissingId}

\* matchId; NoMatch is "no match identifier supplied".
NoMatch == 0

MatchIds == 1..NMatches

Slots == {1}

\* Injective sequences over S of length lo..hi.
InjSeqs(S, lo, hi) ==
  UNION {{q \in [1..n -> S] : \A i, j \in 1..n : i # j => q[i] # q[j]}
         : n \in lo..hi}

Ascending(q) == \A i, j \in DOMAIN q : i < j => q[i] < q[j]

\* All orders in which a query can return the elements of S.
Orders(S) == InjSeqs(S, Cardinality(S), Cardinality(S))

(***************************************************************************)
(* utils/gamification.js: only the invocation contract is modelled; the   *)
(* tables are replaced by one value per result.                            *)
(***************************************************************************)
XpWin == 20

XpLoss == 5

CoinsWin == 10

CoinsLoss == 2

calculateXP(result) == IF result = "win" THEN XpWin ELSE XpLoss

calculateCoins(result) == IF result = "win" THEN CoinsWin ELSE CoinsLoss

\* checkBadges(user, Badge): the evaluator works on the in-memory record;
\* badgeEvals counts the evaluations a record has gone through.
checkBadges(u) == [u EXCEPT !.badgeEvals = @ + 1]

(***************************************************************************)
(* State                                                                   *)
(***************************************************************************)
VARIABLES
  store,     \* player store: id -> player record
  matchDocs, \* match store: matchId -> ratingChanges of the match record
  sett,      \* per slot: the local state of the settlement call
  started    \* number of settlement calls made so far

vars == <<store, matchDocs, sett, started>>

\* Player records as the store holds them before the first settlement.
InitRating(p) == IF p = 1 THEN 1000 ELSE 10 * (p - 1)

InitPlayer(p) ==
  [id |-> p,
   rating |-> InitRating(p),
   wins |-> p - 1,
   losses |-> IF p > 1 THEN 1 ELSE 0,
   draws |-> IF p > 2 THEN 1 ELSE 0,
   matches |-> (p - 1) + (IF p > 1 THEN 1 ELSE 0) + (IF p > 2 THEN 1 ELSE 0),
   streak |-> IF p = 2 THEN 1 ELSE 0,
   longestStreak |-> p - 1,
   xp |-> 0,
   coins |-> 0,
   lastPlayDate |-> 0,
   ratingHistory |-> IF p > 2
                     THEN <<[matchId |-> 1, delta |-> 5,
                             ratingAfter |-> InitRating(p), timestamp |-> 0]>>
                     ELSE <<>>,
   badgeEvals |-> 0]

IdleSett ==
  [kind |-> "idle", opts |-> <<>>, pc |-> "idle", status |-> "idle",
   now |-> 0, docsA |-> <<>>, docsB |-> <<>>, userMap |-> <<>>,
   result |-> <<>>, ratingsBefore |-> <<>>, avgField |-> <<0, 1>>, i |-> 0,
   ratingChanges |-> <<>>, pending |-> {},
   loaded |-> <<>>, issued |-> <<>>, savedIds |-> <<>>, matchCalls |-> <<>>,
   badgeLog |-> <<>>, ioFault |-> FALSE,
   prevKind |-> "none", prevOpts |-> <<>>, prevLoaded |-> <<>>]

Init ==
  /\ store = [p \in Players |-> InitPlayer(p)]
  /\ matchDocs = [m \in MatchIds |-> <<>>]
  /\ sett = [s \in Slots |-> IdleSett]
  /\ started = 0

\* A settlement call may be made on a slot whose previous call is over.
CanStart(s) ==
  /\ started < MaxSettlements
  /\ sett[s].status # "running"
  /\ sett[s].pending = {}

\* ghost: a call that follows one that returned events remembers that
\* call's request and what it had loaded.
NewSett(prev, kind, opts, pc) ==
  LET after == prev.status = "returned" /\ prev.ratingChanges # <<>> IN
  [IdleSett EXCEPT !.kind = kind, !.opts = opts, !.pc = pc,
                   !.status = "running", !.now = started + 1,
                   !.prevKind = IF after THEN prev.kind ELSE "none",
                   !.prevOpts = IF after THEN prev.opts ELSE <<>>,
                   !.prevLoaded = IF after THEN prev.loaded ELSE <<>>]

\* A save that counts the match on top of what the store holds.
SaveRecordCounting(st, u) ==
  [st EXCEPT ![u.id] = [u EXCEPT !.matches = st[u.id].matches + 1]]

\* u.save(): the store keeps the whole record as saved, last write wins.
SaveRecord(st, u) == [st EXCEPT ![u.id] = u]

\* What the caller of a settlement receives: the returned list, or nothing
\* when the call threw or never returned.
Yielded(l) == IF l.status = "returned" THEN l.ratingChanges ELSE <<>>

\* User.findById(id)
findById(id) == IF id \in DOMAIN store THEN <<store[id]>> ELSE <<>>

\* ghost: remember the stored record each loaded document was read from
Remember(loaded, docs) ==
  [p \in DOMAIN loaded \cup {d.id : d \in Range(docs)} |->
     IF p \in {d.id : d \in Range(docs)} THEN store[p] ELSE loaded[p]]

HistoryEntry(matchId, delta, ratingAfter, now) ==
  [matchId |-> matchId, delta |-> delta, ratingAfter |-> ratingAfter,
   timestamp |-> now]

\* The history entry pushed whether or not a match identifier was supplied.
PushHistoryAlways(u, matchId, delta, ratingAfter, now) ==
  [u EXCEPT !.ratingHistory =
              Append(@, HistoryEntry(matchId, delta, ratingAfter, now))]

PushHistory(u, matchId, delta, ratingAfter, now) ==
  IF matchId # NoMatch
  THEN [u EXCEPT !.ratingHistory =
                   Append(@, HistoryEntry(matchId, delta, ratingAfter, now))]
  ELSE u

Change(userId, before, after, delta) ==
  [userId |-> userId, before |-> before, after |-> after, delta |-> delta]

\* ratingChanges.map(c => ({player, ratingBefore, ratingAfter, delta}))
MatchPayload(ratingChanges) ==
  [k \in DOMAIN ratingChanges |->
     [player |-> ratingChanges[k].userId,
      ratingBefore |-> ratingChanges[k].before,
      ratingAfter |-> ratingChanges[k].after,
      delta |-> ratingChanges[k].delta]]

\* A record with a NaN rating does not pass the player schema's validation
\* (rating is a Number path): save() rejects and nothing is written.
Valid(u) == u.rating # NaN

SaveThrowsSwallowed(l, u) ==
  [l EXCEPT !.pc = "matchUpdate", !.ioFault = @ \/ Valid(u)]

\* `await u.save()` rejects inside a loop with no try/catch: the call ends
\* there.  The ghost ioFault tells a store failure from a rejected record.
SaveThrows(l, u) ==
  [l EXCEPT !.pc = "saveFailed", !.status = "threw", !.ioFault = @ \/ Valid(u)]

\* The match update issued whether or not a match identifier was supplied.
AfterSavesAlwaysUpdate(l) == [l EXCEPT !.pc = "matchUpdate"]

\* After the last player save: update the match record or return.
AfterSaves(l) ==
  IF l.opts.matchId # NoMatch THEN [l EXCEPT !.pc = "matchUpdate"]
  ELSE [l EXCEPT !.pc = "done", !.status = "returned"]

(***************************************************************************)
(* run1v1Pipeline                                                          *)
(***************************************************************************)
Facts1v1 ==
  {[winnerSolveMs |-> 900000, winnerAttempts |-> 1, loserAttempts |-> 12,
    matchDurationMs |-> 1800000]}

Opts1v1 ==
  {[matchId |-> m, winnerUserId |-> w, loserUserId |-> lo, isDraw |-> d,
    winnerSolveMs |-> f.winnerSolveMs, winnerAttempts |-> f.winnerAttempts,
    loserAttempts |-> f.loserAttempts, matchDurationMs |-> f.matchDurationMs]
   : m \in {NoMatch} \cup MatchIds, w \in Ids, lo \in Ids, d \in BOOLEAN,
     f \in Facts1v1}

Start1v1(s) ==
  /\ CanStart(s)
  /\ \E o \in Opts1v1 :
       /\ o.winnerUserId # o.loserUserId
       /\ sett' = [sett EXCEPT ![s] = NewSett(sett[s], "1v1", o, "findWinner")]
  /\ started' = started + 1
  /\ UNCHANGED <<store, matchDocs>>

FindWinner(s) ==
  LET l == sett[s] IN
  /\ l.status = "running" /\ l.kind = "1v1" /\ l.pc = "findWinner"
  /\ LET winner == findById(l.opts.winnerUserId) IN
       sett' = [sett EXCEPT ![s] =
                  [l EXCEPT !.docsA = winner,
                            !.loaded = Remember(l.loaded, winner),
                            !.pc = "findLoser"]]
  /\ UNCHANGED <<store, matchDocs, started>>

\* A draw that pays both players the xp and coins of a loss.
Mutate1v1DrawPaid(l, w0, l0) ==
  LET o == l.opts
      result == calculateDrawElo(w0.rating, l0.rating, o.winnerAttempts,
                                 o.loserAttempts)
      w1 == [w0 EXCEPT !.rating = result.newRating1, !.draws = @ + 1,
                       !.streak = 0,
                       !.xp = @ + calculateXP("loss"),
                       !.coins = @ + calculateCoins("loss")]
      l1 == [l0 EXCEPT !.rating = result.newRating2, !.draws = @ + 1,
                       !.streak = 0,
                       !.xp = @ + calculateXP("loss"),
                       !.coins = @ + calculateCoins("loss")]
  IN  [winner |-> w1, loser |-> l1,
       ratingChanges |->
         <<Change(o.winnerUserId, w1.rating - result.delta1, w1.rating,
                  result.delta1),
           Change(o.loserUserId, l1.rating - result.delta2, l1.rating,
                  result.delta2)>>]

\* lines 36-49
Mutate1v1Draw(l, w0, l0) ==
  LET o == l.opts
      result == calculateDrawElo(w0.rating, l0.rating, o.winnerAttempts,
                                 o.loserAttempts)
      w1 == [w0 EXCEPT !.rating = result.newRating1, !.draws = @ + 1,
                       !.streak = 0]
      l1 == [l0 EXCEPT !.rating = result.newRating2, !.draws = @ + 1,
                       !.streak = 0]
  IN  [winner |-> w1, loser |-> l1,
       ratingChanges |->
         <<Change(o.winnerUserId, w1.rating - result.delta1, w1.rating,
                  result.delta1),
           Change(o.loserUserId, l1.rating - result.delta2, l1.rating,
                  result.delta2)>>]

\* lines 50-76
Mutate1v1Win(l, w0, l0) ==
  LET o == l.opts
      ratingBefore == [winner |-> w0.rating, loser |-> l0.rating]
      result == calculateElo(w0.rating, l0.rating, o.winnerSolveMs,
                             o.matchDurationMs, o.winnerAttempts,
                             o.loserAttempts)
      w1 == [w0 EXCEPT !.rating = result.winnerNewRating,
                       !.wins = @ + 1,
                       !.streak = @ + 1,
                       !.longestStreak = Max(@, w0.streak + 1),
                       !.lastPlayDate = l.now,
                       !.xp = @ + calculateXP("win"),
                       !.coins = @ + calculateCoins("win")]
      l1 == [l0 EXCEPT !.rating = result.loserNewRating,
                       !.losses = @ + 1,
                       !.streak = 0,
                       !.xp = @ + calculateXP("loss"),
                       !.coins = @ + calculateCoins("loss")]
  IN  [winner |-> w1, loser |-> l1,
       ratingChanges |->
         <<Change(o.winnerUserId, ratingBefore.winner, w1.rating,
                  result.winnerDelta),
           Change(o.loserUserId, ratingBefore.loser, l1.rating,
                  result.loserDelta)>>]

\* The loser's matches count left as it was.
CountAndHistory1v1WinnerOnly(l, m) ==
  LET wChange == m.ratingChanges[1]
      lChange == m.ratingChanges[2]
      w2 == [m.winner EXCEPT !.matches = @ + 1]
  IN  [l EXCEPT
         !.docsA = <<PushHistory(w2, l.opts.matchId, wChange.delta,
                                 wChange.after, l.now)>>,
         !.docsB = <<PushHistory(m.loser, l.opts.matchId, lChange.delta,
                                 lChange.after, l.now)>>,
         !.ratingChanges = m.ratingChanges,
         !.pc = "badgeWinner"]

\* lines 78-89
CountAndHistory1v1(l, m) ==
  LET wChange == m.ratingChanges[1]
      lChange == m.ratingChanges[2]
      w2 == [m.winner EXCEPT !.matches = @ + 1]
      l2 == [m.loser EXCEPT !.matches = @ + 1]
  IN  [l EXCEPT
         !.docsA = <<PushHistory(w2, l.opts.matchId, wChange.delta,
                                 wChange.after, l.now)>>,
         !.docsB = <<PushHistory(l2, l.opts.matchId, lChange.delta,
                                 lChange.after, l.now)>>,
         !.ratingChanges = m.ratingChanges,
         !.pc = "badgeWinner"]

\* The missing-record return placed after the match update instead of
\* before the mutation.
FindLoserUpdatesMatch(s) ==
  LET l == sett[s] IN
  /\ l.status = "running" /\ l.kind = "1v1" /\ l.pc = "findLoser"
  /\ LET loser == findById(l.opts.loserUserId)
         l1 == [l EXCEPT !.docsB = loser,
                         !.loaded = Remember(l.loaded, loser)]
     IN  sett' = [sett EXCEPT ![s] =
           IF l.docsA = <<>> \/ loser = <<>>
           THEN AfterSaves(l1)
           ELSE CountAndHistory1v1(l1,
                  IF l.opts.isDraw
                  THEN Mutate1v1Draw(l1, l.docsA[1], loser[1])
                  ELSE Mutate1v1Win(l1, l.docsA[1], loser[1]))]
  /\ UNCHANGED <<store, matchDocs, started>>

\* lines 31-92: the second load resolves, then the call runs without
\* suspending up to checkBadges(winner).
FindLoser(s) ==
  LET l == sett[s] IN
  /\ l.status = "running" /\ l.kind = "1v1" /\ l.pc = "findLoser"
  /\ LET loser == findById(l.opts.loserUserId)
         l1 == [l EXCEPT !.docsB = loser,
                         !.loaded = Remember(l.loaded, loser)]
     IN  sett' = [sett EXCEPT ![s] =
           IF l.docsA = <<>> \/ loser = <<>>
           THEN [l1 EXCEPT !.pc = "done", !.status = "returned"]
           ELSE CountAndHistory1v1(l1,
                  IF l.opts.isDraw
                  THEN Mutate1v1Draw(l1, l.docsA[1], loser[1])
                  ELSE Mutate1v1Win(l1, l.docsA[1], loser[1]))]
  /\ UNCHANGED <<store, matchDocs, started>>

BadgeWinner(s) ==
  LET l == sett[s] IN
  /\ l.status = "running" /\ l.kind = "1v1" /\ l.pc = "badgeWinner"
  /\ sett' = [sett EXCEPT ![s] =
                [l EXCEPT !.docsA = <<checkBadges(l.docsA[1])>>,
                          !.badgeLog = Append(@, l.docsA[1].id),
                          !.pc = "badgeLoser"]]
  /\ UNCHANGED <<store, matchDocs, started>>

SavesOneByOne(l) ==
  [l EXCEPT !.pending = {"winner"}, !.issued = <<l.docsA[1].id>>,
            !.pc = "saving"]

\* Both saves issued and not awaited: the function goes on at once.
SavesNotAwaited(l) ==
  [l EXCEPT !.pending = {"winner", "loser"},
            !.issued = <<l.docsA[1].id, l.docsB[1].id>>,
            !.pc = "matchUpdate"]

\* line 96: winner.save() and loser.save() are both called to build the
\* array handed to Promise.all, before anything is awaited.
PromiseAllSaves(l) ==
  [l EXCEPT !.pending = {"winner", "loser"},
            !.issued = <<l.docsA[1].id, l.docsB[1].id>>,
            !.pc = "saving"]

\* line 93 resolves; line 96 issues both saves before awaiting either.
BadgeLoser(s) ==
  LET l == sett[s] IN
  /\ l.status = "running" /\ l.kind = "1v1" /\ l.pc = "badgeLoser"
  /\ sett' = [sett EXCEPT ![s] =
                PromiseAllSaves(
                  [l EXCEPT !.docsB = <<checkBadges(l.docsB[1])>>,
                            !.badgeLog = Append(@, l.docsB[1].id)])]
  /\ UNCHANGED <<store, matchDocs, started>>

PendingDoc(l, which) == IF which = "winner" THEN l.docsA[1] ELSE l.docsB[1]

\* One of the two saves of Promise.all completes.  A rejection rejects the
\* Promise.all at once; the other save is not cancelled.
SaveDone1v1(s) ==
  LET l == sett[s] IN
  /\ l.kind = "1v1" /\ l.pending # {}
  /\ \E which \in l.pending, ok \in BOOLEAN :
       LET u == PendingDoc(l, which)
           rest == l.pending \ {which}
           l1 == [l EXCEPT !.pending = rest]
       IN  IF ok
           THEN /\ store' = SaveRecord(store, u)
                /\ sett' = [sett EXCEPT ![s] =
                     LET l2 == [l1 EXCEPT !.savedIds = Append(@, u.id)]
                     IN  IF rest = {} /\ l.status = "running"
                         THEN AfterSaves(l2) ELSE l2]
           ELSE /\ store' = store
                /\ sett' = [sett EXCEPT ![s] =
                     [l1 EXCEPT !.ioFault = TRUE,
                                !.status = IF l.status = "running"
                                           THEN "threw" ELSE @,
                                !.pc = IF l.status = "running"
                                       THEN "saveFailed" ELSE @]]
  /\ UNCHANGED <<matchDocs, started>>

(***************************************************************************)
(* run2v2Pipeline                                                          *)
(***************************************************************************)
Opts2v2 ==
  {[matchId |-> m, winningTeamIds |-> w, losingTeamIds |-> lo,
    solveMs |-> t, matchDurationMs |-> 1800000]
   : m \in {NoMatch} \cup MatchIds, w \in InjSeqs(Ids, 1, MaxTeam),
     lo \in InjSeqs(Ids, 1, MaxTeam), t \in {900000}}

Start2v2(s) ==
  /\ CanStart(s)
  /\ \E o \in Opts2v2 :
       /\ Range(o.winningTeamIds) \cap Range(o.losingTeamIds) = {}
       /\ Ascending(o.winningTeamIds) /\ Ascending(o.losingTeamIds)
       /\ sett' = [sett EXCEPT ![s] = NewSett(sett[s], "2v2", o, "findWinners")]
  /\ started' = started + 1
  /\ UNCHANGED <<store, matchDocs>>

\* User.find({ _id: { $in: ids } }): the matching records, in an order of
\* the store's choosing.
find(ids) ==
  {[k \in DOMAIN q |-> store[q[k]]] : q \in Orders(Range(ids) \cap DOMAIN store)}

FindWinners(s) ==
  LET l == sett[s] IN
  /\ l.status = "running" /\ l.kind = "2v2" /\ l.pc = "findWinners"
  /\ \E winners \in find(l.opts.winningTeamIds) :
       sett' = [sett EXCEPT ![s] =
                  [l EXCEPT !.docsA = winners,
                            !.loaded = Remember(l.loaded, winners),
                            !.pc = "findLosers"]]
  /\ UNCHANGED <<store, matchDocs, started>>

\* longestStreak not raised with the streak.
MutateWinner2v2NoLongest(l, k) ==
  LET u == l.docsA[k]
      delta == l.result.team1Deltas[k]
      u1 == [u EXCEPT !.rating = l.result.team1[k],
                      !.wins = @ + 1, !.matches = @ + 1,
                      !.streak = @ + 1,
                      !.xp = @ + calculateXP("win"),
                      !.coins = @ + calculateCoins("win")]
  IN  PushHistory(u1, l.opts.matchId, delta, u1.rating, l.now)

\* lines 139-147.  A NaN rating is one the schema cannot cast; the record
\* carries it as the mark that it no longer validates.
MutateWinner2v2(l, k) ==
  LET u == l.docsA[k]
      delta == l.result.team1Deltas[k]
      u1 == [u EXCEPT !.rating = l.result.team1[k],
                      !.wins = @ + 1, !.matches = @ + 1,
                      !.streak = @ + 1,
                      !.longestStreak = Max(@, u.streak + 1),
                      !.xp = @ + calculateXP("win"),
                      !.coins = @ + calculateCoins("win")]
  IN  PushHistory(u1, l.opts.matchId, delta, u1.rating, l.now)

MutateLoser2v2KeepsStreak(l, k) ==
  LET u == l.docsB[k]
      delta == l.result.team2Deltas[k]
      u1 == [u EXCEPT !.rating = l.result.team2[k],
                      !.losses = @ + 1, !.matches = @ + 1,
                      !.xp = @ + calculateXP("loss"),
                      !.coins = @ + calculateCoins("loss")]
  IN  PushHistory(u1, l.opts.matchId, delta, u1.rating, l.now)

\* lines 153-160
MutateLoser2v2(l, k) ==
  LET u == l.docsB[k]
      delta == l.result.team2Deltas[k]
      u1 == [u EXCEPT !.rating = l.result.team2[k],
                      !.losses = @ + 1, !.matches = @ + 1,
                      !.streak = 0,
                      !.xp = @ + calculateXP("loss"),
                      !.coins = @ + calculateCoins("loss")]
  IN  PushHistory(u1, l.opts.matchId, delta, u1.rating, l.now)

\* Run from the top of iteration l.i to the next suspension: i counts
\* through the winners and then the losers.
Enter2v2(l) ==
  LET nW == Len(l.docsA)
      nL == Len(l.docsB)
  IN  IF l.i <= nW
      THEN [l EXCEPT !.docsA[l.i] = MutateWinner2v2(l, l.i), !.pc = "badge"]
      ELSE IF l.i <= nW + nL
      THEN [l EXCEPT !.docsB[l.i - nW] = MutateLoser2v2(l, l.i - nW),
                     !.issued = Append(@, l.docsB[l.i - nW].id),
                     !.pc = "save"]
      ELSE AfterSaves(l)

\* lines 123-136, then the first iteration
FindLosers(s) ==
  LET l == sett[s] IN
  /\ l.status = "running" /\ l.kind = "2v2" /\ l.pc = "findLosers"
  /\ \E losers \in find(l.opts.losingTeamIds) :
       LET wRatings == [k \in DOMAIN l.docsA |-> l.docsA[k].rating]
           lRatings == [k \in DOMAIN losers |-> losers[k].rating]
       IN  sett' = [sett EXCEPT ![s] =
             Enter2v2([l EXCEPT
               !.docsB = losers,
               !.loaded = Remember(l.loaded, losers),
               !.ratingsBefore = [winners |-> wRatings, losers |-> lRatings],
               !.result = calculateTeamElo(wRatings, lRatings, TRUE,
                                           l.opts.solveMs,
                                           l.opts.matchDurationMs),
               !.i = 1])]
  /\ UNCHANGED <<store, matchDocs, started>>

\* line 147 resolves, line 148 issues the save
Badge2v2(s) ==
  LET l == sett[s] IN
  /\ l.status = "running" /\ l.kind = "2v2" /\ l.pc = "badge"
  /\ sett' = [sett EXCEPT ![s] =
                [l EXCEPT !.docsA[l.i] = checkBadges(@),
                          !.badgeLog = Append(@, l.docsA[l.i].id),
                          !.issued = Append(@, l.docsA[l.i].id),
                          !.pc = "save"]]
  /\ UNCHANGED <<store, matchDocs, started>>

\* lines 148-149 / 161-162: the awaited save settles
Save2v2(s) ==
  LET l == sett[s]
      nW == Len(l.docsA)
      isW == l.i <= nW
      u == IF isW THEN l.docsA[l.i] ELSE l.docsB[l.i - nW]
      before == IF isW THEN l.ratingsBefore.winners[l.i]
                ELSE l.ratingsBefore.losers[l.i - nW]
      delta == IF isW THEN l.result.team1Deltas[l.i]
               ELSE l.result.team2Deltas[l.i - nW]
  IN
  /\ l.status = "running" /\ l.kind = "2v2" /\ l.pc = "save"
  /\ \E ok \in BOOLEAN :
       IF ok /\ Valid(u)
       THEN /\ store' = SaveRecord(store, u)
            /\ sett' = [sett EXCEPT ![s] =
                 Enter2v2([l EXCEPT
                   !.savedIds = Append(@, u.id),
                   !.ratingChanges =
                      Append(@, Change(u.id, before, u.rating, delta)),
                   !.i = @ + 1])]
       ELSE /\ store' = store
            /\ sett' = [sett EXCEPT ![s] =
                 SaveThrows(l, u)]
  /\ UNCHANGED <<matchDocs, started>>

(***************************************************************************)
(* runBattleRoyalePipeline                                                 *)
(***************************************************************************)
\* rankings[k].position = k: the caller ranks the entries it passes.
FactsBR ==
  {[solveTimeMs |-> [k \in 1..MaxRank |-> 100000 * k],
    wrongAttempts |-> [k \in 1..MaxRank |-> 6 * (k - 1)],
    matchDurationMs |-> 0]}

OptsBR ==
  {[matchId |-> m,
    rankings |-> [k \in DOMAIN q |->
                    [userId |-> q[k], position |-> k,
                     solveTimeMs |-> f.solveTimeMs[k],
                     wrongAttempts |-> f.wrongAttempts[k]]],
    matchDurationMs |-> f.matchDurationMs]
   : m \in {NoMatch} \cup MatchIds,
     q \in InjSeqs(Ids \cup {NoId}, 1, MaxRank), f \in FactsBR}

StartBR(s) ==
  /\ CanStart(s)
  /\ \E o \in OptsBR :
       /\ Cardinality({k \in DOMAIN o.rankings :
                         o.rankings[k].userId \notin Players}) <= 1
       /\ sett' = [sett EXCEPT ![s] = NewSett(sett[s], "br", o, "findUsers")]
  /\ started' = started + 1
  /\ UNCHANGED <<store, matchDocs>>

\* x || dflt on numbers
OrDefault(x, dflt) == IF x = 0 THEN dflt ELSE x

BRDefaultDurationMs == 300000

\* A record whose history already holds the match is left as it is.
MutateBROncePerMatch(l, ranking) ==
  LET u == l.userMap[ranking.userId]
      r == calculateBattleRoyaleElo(u.rating, l.avgField, ranking.position,
                                    Len(l.opts.rankings), ranking.solveTimeMs,
                                    OrDefault(l.opts.matchDurationMs,
                                              BRDefaultDurationMs),
                                    ranking.wrongAttempts)
      seen == /\ l.opts.matchId # NoMatch
              /\ \E k \in DOMAIN u.ratingHistory :
                    u.ratingHistory[k].matchId = l.opts.matchId
      u1 == [u EXCEPT !.rating = r.newRating, !.matches = @ + 1]
      u2 == IF ranking.position = 1
            THEN [u1 EXCEPT !.wins = @ + 1,
                            !.streak = @ + 1,
                            !.longestStreak = Max(@, u.streak + 1),
                            !.lastPlayDate = l.now,
                            !.xp = @ + calculateXP("win"),
                            !.coins = @ + calculateCoins("win")]
            ELSE [u1 EXCEPT !.losses = @ + 1,
                            !.streak = 0,
                            !.xp = @ + calculateXP("loss"),
                            !.coins = @ + calculateCoins("loss")]
  IN  IF seen
      THEN [doc |-> u, change |-> Change(ranking.userId, u.rating, u.rating, 0)]
      ELSE [doc |-> PushHistory(u2, l.opts.matchId, r.delta, r.newRating,
                                l.now),
            change |-> Change(ranking.userId, u.rating, r.newRating, r.delta)]

\* lines 202-225
MutateBR(l, ranking) ==
  LET u == l.userMap[ranking.userId]
      r == calculateBattleRoyaleElo(u.rating, l.avgField, ranking.position,
                                    Len(l.opts.rankings), ranking.solveTimeMs,
                                    OrDefault(l.opts.matchDurationMs,
                                              BRDefaultDurationMs),
                                    ranking.wrongAttempts)
      u1 == [u EXCEPT !.rating = r.newRating, !.matches = @ + 1]
      u2 == IF ranking.position = 1
            THEN [u1 EXCEPT !.wins = @ + 1,
                            !.streak = @ + 1,
                            !.longestStreak = Max(@, u.streak + 1),
                            !.lastPlayDate = l.now,
                            !.xp = @ + calculateXP("win"),
                            !.coins = @ + calculateCoins("win")]
            ELSE [u1 EXCEPT !.losses = @ + 1,
                            !.streak = 0,
                            !.xp = @ + calculateXP("loss"),
                            !.coins = @ + calculateCoins("loss")]
  IN  [doc |-> PushHistory(u2, l.opts.matchId, r.delta, r.newRating, l.now),
       change |-> Change(ranking.userId, u.rating, r.newRating, r.delta)]

\* Run from the top of iteration l.i to the next suspension; result holds
\* the event that line 229 pushes once the save has resolved.
RECURSIVE EnterBR(_)
EnterBR(l) ==
  IF l.i > Len(l.opts.rankings) THEN AfterSaves(l)
  ELSE LET ranking == l.opts.rankings[l.i] IN
       IF ranking.userId = NoId \/ ranking.userId \notin DOMAIN l.userMap
       THEN EnterBR([l EXCEPT !.i = @ + 1])
       ELSE LET m == MutateBR(l, ranking) IN
            [l EXCEPT !.userMap[ranking.userId] = m.doc,
                      !.result = m.change,
                      !.pc = "badge"]

\* The sum divided by the number of users as it is.
AverageUnguarded(total, n) == <<total, n>>

\* line 192: sum / Math.max(1, users.length)
Average(total, n) == <<total, Max(1, n)>>

\* lines 187-195, then the first iteration
FindUsers(s) ==
  LET l == sett[s] IN
  /\ l.status = "running" /\ l.kind = "br" /\ l.pc = "findUsers"
  /\ LET userIds == {l.opts.rankings[k].userId : k \in DOMAIN l.opts.rankings}
                      \ {NoId}
         found == userIds \cap DOMAIN store
         users == [p \in found |-> store[p]]
         total == SumSeq([k \in 1..MissingId |->
                            IF k \in found THEN store[k].rating ELSE 0])
     IN  sett' = [sett EXCEPT ![s] =
           EnterBR([l EXCEPT
             !.userMap = users,
             !.loaded = [p \in found |-> store[p]],
             !.avgField = Average(total, Cardinality(found)),
             !.i = 1])]
  /\ UNCHANGED <<store, matchDocs, started>>

BadgeBR(s) ==
  LET l == sett[s]
      id == l.opts.rankings[l.i].userId
  IN
  /\ l.status = "running" /\ l.kind = "br" /\ l.pc = "badge"
  /\ sett' = [sett EXCEPT ![s] =
                [l EXCEPT !.userMap[id] = checkBadges(@),
                          !.badgeLog = Append(@, id),
                          !.issued = Append(@, id),
                          !.pc = "save"]]
  /\ UNCHANGED <<store, matchDocs, started>>

\* lines 227-229: the awaited save settles
SaveBR(s) ==
  LET l == sett[s]
      u == l.userMap[l.opts.rankings[l.i].userId]
  IN
  /\ l.status = "running" /\ l.kind = "br" /\ l.pc = "save"
  /\ \E ok \in BOOLEAN :
       IF ok /\ Valid(u)
       THEN /\ store' = SaveRecord(store, u)
            /\ sett' = [sett EXCEPT ![s] =
                 EnterBR([l EXCEPT
                   !.savedIds = Append(@, u.id),
                   !.ratingChanges = Append(@, l.result),
                   !.i = @ + 1])]
       ELSE /\ store' = store
            /\ sett' = [sett EXCEPT ![s] =
                 SaveThrows(l, u)]
  /\ UNCHANGED <<matchDocs, started>>

\* The update applied with no identifier filter.
UpdateEveryMatch(docs, matchId, payload) == [m \in DOMAIN docs |-> payload]

\* findByIdAndUpdate changes the one document with that identifier.
findByIdAndUpdate(docs, matchId, payload) == [docs EXCEPT ![matchId] = payload]

\* Match.findByIdAndUpdate(matchId, {ratingChanges: ...}), all topologies.
MatchUpdate(s) ==
  LET l == sett[s] IN
  /\ l.status = "running" /\ l.pc = "matchUpdate"
  /\ \E ok \in BOOLEAN :
       LET payload == MatchPayload(l.ratingChanges)
           l1 == [l EXCEPT !.matchCalls = Append(@, payload)]
       IN  IF ok
           THEN /\ matchDocs' =
                     findByIdAndUpdate(matchDocs, l.opts.matchId, payload)
                /\ sett' = [sett EXCEPT ![s] =
                     [l1 EXCEPT !.pc = "done", !.status = "returned"]]
           ELSE /\ matchDocs' = matchDocs
                /\ sett' = [sett EXCEPT ![s] =
                     [l1 EXCEPT !.pc = "matchUpdateFailed",
                                !.status = "threw", !.ioFault = TRUE]]
  /\ UNCHANGED <<store, started>>

\* The server process dies while a call is suspended: the call's in-memory
\* state is gone, what the stores hold stays.
Crash(s) ==
  LET l == sett[s] IN
  /\ l.status = "running"
  /\ sett' = [sett EXCEPT ![s] =
                [IdleSett EXCEPT !.kind = l.kind, !.opts = l.opts,
                                 !.now = l.now, !.status = "crashed",
                                 !.pc = "crashed", !.loaded = l.loaded,
                                 !.savedIds = l.savedIds,
                                 !.issued = l.issued,
                                 !.matchCalls = l.matchCalls]]
  /\ UNCHANGED <<store, matchDocs, started>>

Next ==
  \E s \in Slots :
    \/ Start1v1(s)
    \/ FindWinner(s)
    \/ FindLoser(s)
    \/ BadgeWinner(s)
    \/ BadgeLoser(s)
    \/ SaveDone1v1(s)
    \/ Start2v2(s)
    \/ FindWinners(s)
    \/ FindLosers(s)
    \/ Badge2v2(s)
    \/ Save2v2(s)
    \/ StartBR(s)
    \/ FindUsers(s)
    \/ BadgeBR(s)
    \/ SaveBR(s)
    \/ MatchUpdate(s)
    \/ Crash(s)

Spec == Init /\ [][Next]_vars

(***************************************************************************)
(* Two settlements in flight at once.  Nothing in the module serialises    *)
(* calls: each exported function is async and every await is a point where *)
(* another call may run.  Each of the two slots runs one call under its    *)
(* own match identifier; every identifier of Ids has a record here.        *)
(***************************************************************************)
ConcSlots == {1, 2}

\* participants of one concurrent request
MaxConcIds == 2

InitConc ==
  /\ store = [p \in Ids |-> InitPlayer(p)]
  /\ matchDocs = [m \in ConcSlots |-> <<>>]
  /\ sett = [s \in ConcSlots |-> IdleSett]
  /\ started = 0

ConcIds(ids) == Len(ids) <= MaxConcIds /\ Range(ids) \subseteq Ids

\* Slot 1 is the call made first.
StartConc(s) ==
  /\ sett[s].status = "idle"
  /\ \A t \in ConcSlots : t < s => sett[t].status # "idle"
  /\ \/ \E o \in Opts1v1 :
          /\ o.matchId # NoMatch
          /\ o.winnerUserId # o.loserUserId
          /\ sett' = [sett EXCEPT ![s] =
                NewSett(sett[s], "1v1", [o EXCEPT !.matchId = s],
                        "findWinner")]
     \/ \E o \in Opts2v2 :
          /\ o.matchId # NoMatch
          /\ ConcIds(o.winningTeamIds \o o.losingTeamIds)
          /\ Range(o.winningTeamIds) \cap Range(o.losingTeamIds) = {}
          /\ Ascending(o.winningTeamIds) /\ Ascending(o.losingTeamIds)
          /\ sett' = [sett EXCEPT ![s] =
                NewSett(sett[s], "2v2", [o EXCEPT !.matchId = s],
                        "findWinners")]
     \/ \E o \in OptsBR :
          /\ o.matchId # NoMatch
          /\ ConcIds([k \in DOMAIN o.rankings |-> o.rankings[k].userId])
          /\ sett' = [sett EXCEPT ![s] =
                NewSett(sett[s], "br", [o EXCEPT !.matchId = s], "findUsers")]
  /\ started' = started + 1
  /\ UNCHANGED <<store, matchDocs>>

NextConc ==
  \E s \in ConcSlots :
    \/ StartConc(s)
    \/ FindWinner(s)
    \/ FindLoser(s)
    \/ BadgeWinner(s)
    \/ BadgeLoser(s)
    \/ SaveDone1v1(s)
    \/ FindWinners(s)
    \/ FindLosers(s)
    \/ Badge2v2(s)
    \/ Save2v2(s)
    \/ FindUsers(s)
    \/ BadgeBR(s)
    \/ SaveBR(s)
    \/ MatchUpdate(s)

SpecConc == InitConc /\ [][NextConc]_vars

(***************************************************************************)
(* calculateElo on its own: a caller picks the arguments and calls it.     *)
(***************************************************************************)
EloRatings == {800, 1000, 1200, 1800, 2200}

EloArgs ==
  [winnerRating : EloRatings, loserRating : EloRatings,
   solveTimeMs : {0, 900000, 1800000}, matchDurationMs : {0, 1800000},
   winnerAttempts : {0, 3}, loserAttempts : {0, 12}]

InitElo ==
  /\ store = [p \in Players |-> InitPlayer(p)]
  /\ matchDocs = [m \in MatchIds |-> <<>>]
  /\ \E a \in EloArgs :
       sett = [s \in Slots |->
                 [IdleSett EXCEPT !.kind = "calculateElo", !.opts = a,
                                  !.pc = "call", !.status = "running"]]
  /\ started = 0

CallCalculateElo(s) ==
  LET l == sett[s]
      a == l.opts
  IN
  /\ l.kind = "calculateElo" /\ l.pc = "call"
  /\ sett' = [sett EXCEPT ![s] =
                [l EXCEPT !.result =
                            calculateElo(a.winnerRating, a.loserRating,
                                         a.solveTimeMs, a.matchDurationMs,
                                         a.winnerAttempts, a.loserAttempts),
                          !.pc = "done", !.status = "returned"]]
  /\ UNCHANGED <<store, matchDocs, started>>

NextElo == \E s \in Slots : CallCalculateElo(s)

SpecElo == InitElo /\ [][NextElo]_vars

(***************************************************************************)
(* calculateEloDelta on its own.  The opponent rating is a rating or the   *)
(* mean of two; the outcome is a loss, a lower battle-royale place, a draw *)
(* or a win.                                                               *)
(***************************************************************************)
MaxRatingArg == 2100

DeltaArgs ==
  [playerRating : 0..MaxRatingArg,
   opp : {<<1000, 1>>, <<3000, 2>>},
   outcome : {<<0, 1>>, <<1, 3>>, <<1, 2>>, <<1, 1>>},
   solveTimeMs : {0, 1, 900000, 3600000},
   matchDurationMs : {0, 1800000},
   wrongAttempts : {0, 2}]

InitDelta ==
  /\ store = [p \in Players |-> InitPlayer(p)]
  /\ matchDocs = [m \in MatchIds |-> <<>>]
  /\ \E a \in DeltaArgs :
       sett = [s \in Slots |->
                 [IdleSett EXCEPT !.kind = "calculateEloDelta", !.opts = a,
                                  !.pc = "call", !.status = "running"]]
  /\ started = 0

CallCalculateEloDelta(s) ==
  LET l == sett[s]
      a == l.opts
  IN
  /\ l.kind = "calculateEloDelta" /\ l.pc = "call"
  /\ sett' = [sett EXCEPT ![s] =
                [l EXCEPT !.result =
                            [delta |->
                               calculateEloDelta(a.playerRating, a.opp,
                                                 a.outcome, a.solveTimeMs,
                                                 a.matchDurationMs,
                                                 a.wrongAttempts)],
                          !.pc = "done", !.status = "returned"]]
  /\ UNCHANGED <<store, matchDocs, started>>

NextDelta == \E s \in Slots : CallCalculateEloDelta(s)

SpecDelta == InitDelta /\ [][NextDelta]_vars

(***************************************************************************)
(* calculateBattleRoyaleElo on its own, for a position within the field.   *)
(* The ghost outcome is the outcome score the function computes on its     *)
(* first line.                                                             *)
(***************************************************************************)
MaxField == 5

BattleRoyaleArgs ==
  {a \in [playerRating : {0, 1000, 2200},
          avgFieldRating : {<<0, 1>>, <<1000, 1>>, <<3200, 3>>},
          position : 1..MaxField,
          totalPlayers : 1..MaxField,
          solveTimeMs : {0, 100000},
          matchDurationMs : {BRDefaultDurationMs},
          wrongAttempts : {0, 6}] : a.position <= a.totalPlayers}

InitBattleRoyale ==
  /\ store = [p \in Players |-> InitPlayer(p)]
  /\ matchDocs = [m \in MatchIds |-> <<>>]
  /\ \E a \in BattleRoyaleArgs :
       sett = [s \in Slots |->
                 [IdleSett EXCEPT !.kind = "calculateBattleRoyaleElo",
                                  !.opts = a,
                                  !.pc = "call", !.status = "running"]]
  /\ started = 0

CallCalculateBattleRoyaleElo(s) ==
  LET l == sett[s]
      a == l.opts
      r == calculateBattleRoyaleElo(a.playerRating, a.avgFieldRating,
                                    a.position, a.totalPlayers, a.solveTimeMs,
                                    a.matchDurationMs, a.wrongAttempts)
  IN
  /\ l.kind = "calculateBattleRoyaleElo" /\ l.pc = "call"
  /\ sett' = [sett EXCEPT ![s] =
                [l EXCEPT !.result =
                            [outcome |-> BattleRoyaleOutcome(a.position,
                                                             a.totalPlayers),
                             delta |-> r.delta, newRating |-> r.newRating],
                          !.pc = "done", !.status = "returned"]]
  /\ UNCHANGED <<store, matchDocs, started>>

NextBattleRoyale == \E s \in Slots : CallCalculateBattleRoyaleElo(s)

SpecBattleRoyale == InitBattleRoyale /\ [][NextBattleRoyale]_vars

(***************************************************************************)
(* calculateTeamElo on its own, both sides non-empty.                      *)
(***************************************************************************)
TeamRatings == {0, 700, 1000, 1500, 2200}

TeamArgs ==
  [team1Ratings : InjSeqs(TeamRatings, 1, MaxTeam),
   team2Ratings : InjSeqs(TeamRatings, 1, MaxTeam),
   team1Won : BOOLEAN,
   team1SolveMs : {0, 1, 900000, 3600000},
   matchDurationMs : {0, 1800000}]

InitTeam ==
  /\ store = [p \in Players |-> InitPlayer(p)]
  /\ matchDocs = [m \in MatchIds |-> <<>>]
  /\ \E a \in TeamArgs :
       sett = [s \in Slots |->
                 [IdleSett EXCEPT !.kind = "calculateTeamElo", !.opts = a,
                                  !.pc = "call", !.status = "running"]]
  /\ started = 0

CallCalculateTeamElo(s) ==
  LET l == sett[s]
      a == l.opts
  IN
  /\ l.kind = "calculateTeamElo" /\ l.pc = "call"
  /\ sett' = [sett EXCEPT ![s] =
                [l EXCEPT !.result =
                            calculateTeamElo(a.team1Ratings, a.team2Ratings,
                                             a.team1Won, a.team1SolveMs,
                                             a.matchDurationMs),
                          !.pc = "done", !.status = "returned"]]
  /\ UNCHANGED <<store, matchDocs, started>>

NextTeam == \E s \in Slots : CallCalculateTeamElo(s)

SpecTeam == InitTeam /\ [][NextTeam]_vars

(***************************************************************************)
(* Vocabulary of the properties                                            *)
(***************************************************************************)
Live(l) == l.kind # "idle"

\* The participant identifiers of a request, in input order.
InputIds(l) ==
  IF l.kind = "1v1" THEN <<l.opts.winnerUserId, l.opts.loserUserId>>
  ELSE IF l.kind = "2v2" THEN l.opts.winningTeamIds \o l.opts.losingTeamIds
  ELSE [k \in DOMAIN l.opts.rankings |-> l.opts.rankings[k].userId]

IsPlayer(id) == id \in Players

\* ... those of them that have a player record.
ResolvedIds(l) == SelectSeq(InputIds(l), IsPlayer)

EventIds(l) == [k \in DOMAIN l.ratingChanges |-> l.ratingChanges[k].userId]

\* The call is over and the store never failed it.
EndedUnfailed(l) == l.status \in {"returned", "threw"} /\ ~l.ioFault

\* The event a settlement holds for player p.
EventOf(l, p) ==
  l.ratingChanges[CHOOSE k \in DOMAIN l.ratingChanges :
                    l.ratingChanges[k].userId = p]

HasEvent(l, p) == \E k \in DOMAIN l.ratingChanges : l.ratingChanges[k].userId = p

\* How many of wins, losses, draws went up by one from record a to record b,
\* the others unchanged.
OneResultCounted(a, b) ==
  \/ b.wins = a.wins + 1 /\ b.losses = a.losses /\ b.draws = a.draws
  \/ b.wins = a.wins /\ b.losses = a.losses + 1 /\ b.draws = a.draws
  \/ b.wins = a.wins /\ b.losses = a.losses /\ b.draws = a.draws + 1

IsPrefix(a, b) == Len(a) <= Len(b) /\ \A k \in DOMAIN a : a[k] = b[k]

C2_MatchesCounted ==
  /\ \A p \in Players :
       store[p].matches = store[p].wins + store[p].losses + store[p].draws
  /\ \A s \in Slots : \A p \in Range(sett[s].savedIds) :
       /\ store[p].matches = sett[s].loaded[p].matches + 1
       /\ OneResultCounted(sett[s].loaded[p], store[p])

\* A second settlement that returned after saving three players.
C2_Witness ==
  \E s \in Slots :
    /\ sett[s].status = "returned"
    /\ sett[s].now = 2
    /\ Len(sett[s].savedIds) = 3

(***************************************************************************)
(* C3  longestStreak >= streak in every stored record, and no step lowers  *)
(* a stored longestStreak.                                                 *)
(***************************************************************************)
C3_LongestStreak ==
  /\ [](\A p \in Players : store[p].longestStreak >= store[p].streak)
  /\ [][\A p \in Players :
          store'[p].longestStreak >= store[p].longestStreak]_vars

\* A saved win raised longestStreak, and another stored record has a
\* streak reset below its longestStreak by a saved loss.
C3_Witness ==
  \E s \in Slots : \E p, q \in Range(sett[s].savedIds) :
    /\ store[p].longestStreak > sett[s].loaded[p].longestStreak
    /\ store[p].longestStreak = store[p].streak
    /\ sett[s].loaded[q].streak > 0
    /\ store[q].streak = 0
    /\ store[q].longestStreak > 0

(***************************************************************************)
(* C4  A head-to-head or draw settlement with an unloadable participant    *)
(* changes neither store at any step, evaluates no badge, issues no save   *)
(* and no match update, and can only end by returning no events.           *)
(***************************************************************************)
Unloadable1v1(l) ==
  /\ l.kind = "1v1"
  /\ ~(l.opts.winnerUserId \in Players /\ l.opts.loserUserId \in Players)

C4_AbortWhole ==
  [][\A s \in Slots :
       (sett[s].status = "running" /\ Unloadable1v1(sett[s])) =>
         /\ store' = store
         /\ matchDocs' = matchDocs
         /\ sett'[s].pc \in {"findWinner", "findLoser", "done", "crashed"}
         /\ sett'[s].ratingChanges = <<>>
         /\ sett'[s].badgeLog = <<>>
         /\ sett'[s].pending = {}
         /\ sett'[s].savedIds = <<>>
         /\ sett'[s].matchCalls = <<>>
         /\ (sett'[s].pc = "done" => sett'[s].status = "returned")]_vars

\* The winner was loaded, the loser was not, and the call returned; a
\* match identifier was supplied.
C4_Witness ==
  \E s \in Slots :
    /\ Unloadable1v1(sett[s])
    /\ sett[s].status = "returned"
    /\ sett[s].docsA # <<>>
    /\ sett[s].opts.matchId # NoMatch
    /\ sett[s].ratingChanges = <<>>

C6_BeforeAfter ==
  \A s \in Slots : \A k \in DOMAIN sett[s].ratingChanges :
    LET c == sett[s].ratingChanges[k] IN
    /\ c.before = sett[s].loaded[c.userId].rating
    /\ (c.userId \in Range(sett[s].savedIds) =>
          c.after = store[c.userId].rating)

(***************************************************************************)
(* C7  A returned settlement holds one event per resolved participant, in  *)
(* input order (no event when a head-to-head participant is unloadable).   *)
(***************************************************************************)
C7_InputOrder ==
  \A s \in Slots :
    (Live(sett[s]) /\ sett[s].status = "returned") =>
      EventIds(sett[s]) =
        IF Unloadable1v1(sett[s]) THEN <<>> ELSE ResolvedIds(sett[s])

(***************************************************************************)
(* C8  The match update is invoked at most once per settlement and never   *)
(* without a match identifier; with one, once the call got past its player *)
(* saves it is invoked exactly once with the events' player, ratingBefore, *)
(* ratingAfter and delta in event order, and a successful update stores    *)
(* exactly that.                                                           *)
(***************************************************************************)
C8_MatchUpdateOnce ==
  \A s \in Slots :
    LET l == sett[s] IN
    Live(l) =>
      /\ Len(l.matchCalls) <= 1
      /\ (l.opts.matchId = NoMatch => l.matchCalls = <<>>)
      /\ (/\ l.opts.matchId # NoMatch
          /\ l.pc \in {"done", "matchUpdateFailed"}
          /\ ~Unloadable1v1(l))
         => /\ Len(l.matchCalls) = 1
            /\ Len(l.matchCalls[1]) = Len(l.ratingChanges)
            /\ \A k \in DOMAIN l.ratingChanges :
                 /\ l.matchCalls[1][k].player = l.ratingChanges[k].userId
                 /\ l.matchCalls[1][k].ratingBefore = l.ratingChanges[k].before
                 /\ l.matchCalls[1][k].ratingAfter = l.ratingChanges[k].after
                 /\ l.matchCalls[1][k].delta = l.ratingChanges[k].delta
            /\ (l.status = "returned" =>
                  matchDocs[l.opts.matchId] = l.matchCalls[1])

\* A returned settlement whose three events are on the match record.
C8_Witness ==
  \E s \in Slots :
    /\ sett[s].status = "returned"
    /\ Len(sett[s].ratingChanges) = 3
    /\ Len(sett[s].matchCalls) = 1
    /\ Len(matchDocs[sett[s].opts.matchId]) = 3

(***************************************************************************)
(* C9  ratingHistory is append-only: no step edits or removes a stored     *)
(* entry; a record saved by a settlement with a match identifier holds the *)
(* loaded history plus one entry {matchId, delta, ratingAfter, timestamp}  *)
(* taken from that player's event; without a match identifier the stored   *)
(* history is the loaded one.                                              *)
(***************************************************************************)
C9_HistoryOfSaved ==
  \A s \in Slots : \A p \in Range(sett[s].savedIds) :
    LET l == sett[s] IN
    /\ l.opts.matchId = NoMatch =>
         store[p].ratingHistory = l.loaded[p].ratingHistory
    /\ l.opts.matchId # NoMatch =>
         /\ Len(store[p].ratingHistory) = Len(l.loaded[p].ratingHistory) + 1
         /\ SubSeq(store[p].ratingHistory, 1, Len(l.loaded[p].ratingHistory))
              = l.loaded[p].ratingHistory
         /\ LET e == store[p].ratingHistory[Len(store[p].ratingHistory)] IN
            /\ e.matchId = l.opts.matchId
            /\ e.timestamp = l.now
            /\ HasEvent(l, p) =>
                 /\ e.delta = EventOf(l, p).delta
                 /\ e.ratingAfter = EventOf(l, p).after

C9_AppendOnly ==
  /\ []C9_HistoryOfSaved
  /\ [][\A p \in Players :
          IsPrefix(store[p].ratingHistory, store'[p].ratingHistory)]_vars

\* A player who came with one history entry holds two after a settlement
\* with a match identifier, and another settlement without one saved a
\* player and left the history alone.
C9_Witness ==
  \E s \in Slots : \E p, q \in Players :
    /\ Len(InitPlayer(p).ratingHistory) = 1
    /\ Len(store[p].ratingHistory) = 2
    /\ sett[s].opts.matchId = NoMatch
    /\ q \in Range(sett[s].savedIds)
    /\ sett[s].status = "returned"

(***************************************************************************)
(* C10  Head-to-head saves are one transaction: in no state has exactly    *)
(* one of the two players been saved by the settlement.                    *)
(***************************************************************************)
C10_AtomicPair ==
  \A s \in Slots :
    sett[s].kind = "1v1" => Cardinality(Range(sett[s].savedIds)) # 1

(***************************************************************************)
(* C11  A failed save in a team or battle-royale settlement ends the call  *)
(* with the failure and nothing else: the players saved before it hold     *)
(* their update in the store, the loaded players after it hold the record  *)
(* as loaded, no match update is ever invoked, and no later step of the    *)
(* failed call touches the store or the match documents.                   *)
(***************************************************************************)
SaveFailed(l) ==
  /\ l.kind \in {"2v2", "br"}
  /\ l.pc = "saveFailed" \/ (l.ioFault /\ l.pc # "matchUpdateFailed")

C11_FailedState ==
  \A s \in Slots :
    LET l == sett[s] IN
    SaveFailed(l) =>
      /\ l.status = "threw" /\ l.pc = "saveFailed"
      /\ l.matchCalls = <<>>
      /\ \A p \in DOMAIN l.loaded :
           IF p \in Range(l.savedIds)
           THEN /\ store[p].matches = l.loaded[p].matches + 1
                /\ OneResultCounted(l.loaded[p], store[p])
           ELSE store[p] = l.loaded[p]

C12_PartialYield ==
  \A s \in Slots :
    LET l == sett[s] IN
    (l.status = "threw" /\ l.savedIds # <<>>) =>
      \A p \in Range(l.savedIds) :
        \E k \in DOMAIN Yielded(l) : Yielded(l)[k].userId = p

(***************************************************************************)
(* C13  Team and battle-royale saves are strictly sequential: at most one  *)
(* save is outstanding, a save is issued only when every earlier one has   *)
(* completed, winners are saved before any loser and battle-royale records *)
(* in ranking order.  A head-to-head settlement issues both saves at once, *)
(* before either has completed; they may complete in either order.         *)
(***************************************************************************)
C13_SaveOrder ==
  \A s \in Slots :
    LET l == sett[s]
        out == Len(l.issued) - Len(l.savedIds)
    IN
    /\ l.kind \in {"2v2", "br"} =>
         /\ l.pending = {}
         /\ IsPrefix(l.savedIds, l.issued)
         /\ out \in {0, 1}
         /\ out = 1 => l.pc \in {"save", "saveFailed", "crashed"}
         /\ l.pc = "save" => out = 1
    /\ l.kind = "2v2" =>
         \A i, j \in DOMAIN l.issued :
           (i < j /\ l.issued[i] \in Range(l.opts.losingTeamIds))
             => l.issued[j] \notin Range(l.opts.winningTeamIds)
    /\ l.kind = "br" => IsPrefix(l.issued, ResolvedIds(l))
    /\ l.kind = "1v1" =>
         /\ Len(l.issued) \in {0, 2}
         /\ l.issued # <<>> => l.issued = InputIds(l)
         /\ Range(l.savedIds) \subseteq Range(l.issued)
         /\ (l.pc = "saving" /\ l.savedIds = <<>> /\ ~l.ioFault)
              => l.pending = {"winner", "loser"}

\* After a team settlement that saved a winner and then a loser, a
\* head-to-head settlement had its loser's save complete before its winner's.
C13_Witness ==
  \E s \in Slots :
    LET l == sett[s] IN
    /\ l.kind = "1v1"
    /\ l.savedIds = <<l.opts.loserUserId, l.opts.winnerUserId>>
    /\ l.prevKind = "2v2"
    /\ Len(l.prevOpts.winningTeamIds) + Len(l.prevOpts.losingTeamIds) >= 3

(***************************************************************************)
(* C14  In every topology the badge evaluator runs exactly once on each    *)
(* record the settlement mutates, winner or loser, before that record's    *)
(* save is issued: a record whose save was issued is in the badge log      *)
(* once, and a saved record carries one more evaluation than it was loaded *)
(* with.                                                                   *)
(***************************************************************************)
C14_BadgeOncePerRecord ==
  \A s \in Slots :
    LET l == sett[s] IN
    /\ l.status # "crashed" =>
         /\ \A p \in Range(l.issued) :
              Cardinality({k \in DOMAIN l.badgeLog : l.badgeLog[k] = p}) = 1
         /\ \A p \in Range(l.badgeLog) :
              Cardinality({k \in DOMAIN l.badgeLog : l.badgeLog[k] = p}) = 1
    /\ \A p \in Range(l.savedIds) :
         store[p].badgeEvals = l.loaded[p].badgeEvals + 1

(***************************************************************************)
(* C15  Every saved record that was counted a win carries the time of the  *)
(* settlement as lastPlayDate; a saved record counted a loss or a draw     *)
(* keeps the lastPlayDate it was loaded with.                              *)
(***************************************************************************)
C15_LastPlayDate ==
  \A s \in Slots : \A p \in Range(sett[s].savedIds) :
    LET l == sett[s] IN
    IF store[p].wins = l.loaded[p].wins + 1
    THEN store[p].lastPlayDate = l.now
    ELSE store[p].lastPlayDate = l.loaded[p].lastPlayDate

(***************************************************************************)
(* C16  A saved record that was counted a win has the loaded streak plus   *)
(* one; a saved record counted a loss or a draw has streak 0.  In battle   *)
(* royale the record at position 1, and no other, is counted a win; every  *)
(* other position is counted a loss.                                       *)
(***************************************************************************)
C16_Streak ==
  \A s \in Slots : \A p \in Range(sett[s].savedIds) :
    LET l == sett[s]
        a == l.loaded[p]
        b == store[p]
    IN
    /\ b.wins = a.wins + 1 => b.streak = a.streak + 1
    /\ b.wins = a.wins =>
         /\ b.streak = 0
         /\ b.losses = a.losses + 1 \/ b.draws = a.draws + 1
    /\ l.kind = "br" =>
         \A k \in DOMAIN l.opts.rankings :
           l.opts.rankings[k].userId = p =>
             IF l.opts.rankings[k].position = 1
             THEN b.wins = a.wins + 1 /\ b.losses = a.losses
             ELSE b.wins = a.wins /\ b.losses = a.losses + 1

\* A battle royale of three saved the first place with a longer streak and
\* reset the running streak of a player placed lower.
C16_Witness ==
  \E s \in Slots : \E p, q \in Players :
    LET l == sett[s] IN
    /\ l.kind = "br" /\ l.status = "returned" /\ Len(l.savedIds) = 3
    /\ l.opts.rankings[1].userId = p
    /\ store[p].streak = l.loaded[p].streak + 1
    /\ q # p /\ l.loaded[q].streak > 0 /\ store[q].streak = 0

(***************************************************************************)
(* C17  A settlement is not idempotent: when the request that has just     *)
(* returned events is made again with the same match identifier and        *)
(* returns, every saved player's matches is two above what the first call  *)
(* loaded, the stored history is the first call's loaded history plus two  *)
(* entries with that match identifier, and the second call computed its    *)
(* deltas from the ratings the first call left.                            *)
(***************************************************************************)
Replayed(l) ==
  /\ l.status = "returned" /\ l.ratingChanges # <<>>
  /\ l.opts.matchId # NoMatch
  /\ l.prevKind = l.kind
  /\ l.prevOpts = l.opts

C17_ReplayCountsTwice ==
  \A s \in Slots :
    LET l == sett[s] IN
    Replayed(l) =>
      /\ l.savedIds # <<>>
      /\ \A p \in Range(l.savedIds) :
           LET h0 == l.prevLoaded[p].ratingHistory
               h == store[p].ratingHistory
               n == Len(h)
               c == EventOf(l, p)
           IN
           /\ p \in DOMAIN l.prevLoaded
           /\ store[p].matches = l.prevLoaded[p].matches + 2
           /\ n = Len(h0) + 2
           /\ SubSeq(h, 1, n - 2) = h0
           /\ h[n - 1].matchId = l.opts.matchId /\ h[n - 1].timestamp = l.now - 1
           /\ h[n].matchId = l.opts.matchId /\ h[n].timestamp = l.now
           /\ l.loaded[p].rating = h[n - 1].ratingAfter
           /\ c.delta = h[n].delta
           /\ c.after = Max(0, h[n - 1].ratingAfter + c.delta)
      /\ (l.kind = "1v1" /\ ~l.opts.isDraw) =>
           LET o == l.opts
               again == calculateElo(l.loaded[o.winnerUserId].rating,
                                     l.loaded[o.loserUserId].rating,
                                     o.winnerSolveMs, o.matchDurationMs,
                                     o.winnerAttempts, o.loserAttempts)
           IN  /\ EventOf(l, o.winnerUserId).delta = again.winnerDelta
               /\ EventOf(l, o.loserUserId).delta = again.loserDelta

\* A replayed head-to-head win whose second delta differs from the first.
C17_Witness ==
  \E s \in Slots :
    LET l == sett[s] IN
    /\ Replayed(l) /\ l.kind = "1v1" /\ ~l.opts.isDraw
    /\ LET h == store[l.opts.winnerUserId].ratingHistory IN
         Len(h) >= 2 /\ h[Len(h)].delta # h[Len(h) - 1].delta

(***************************************************************************)
(* C18  Two settlements in flight with no participant in common and        *)
(* different match identifiers do not touch each other: however their      *)
(* steps interleave, each loads its participants as they were before       *)
(* either call, each participant's stored record is the one its own        *)
(* settlement saved (or still the initial one), each match document holds  *)
(* its own settlement's events, and the events are those computed from the *)
(* initial ratings, as when the calls run one after the other.             *)
(***************************************************************************)
\* The record a settlement holds in memory for player p.
DocOf(l, p) ==
  IF l.kind = "br" THEN l.userMap[p]
  ELSE LET docs == l.docsA \o l.docsB
       IN  docs[CHOOSE k \in DOMAIN docs : docs[k].id = p]

Disjoint(a, b) ==
  /\ Live(a) /\ Live(b)
  /\ Range(InputIds(a)) \cap Range(InputIds(b)) = {}
  /\ a.opts.matchId # b.opts.matchId

C18_Isolation ==
  \A s, t \in DOMAIN sett :
    (s # t /\ Disjoint(sett[s], sett[t])) =>
      LET l == sett[s] IN
      /\ \A p \in DOMAIN l.loaded : l.loaded[p] = InitPlayer(p)
      /\ \A p \in Range(InputIds(l)) :
           store[p] = IF p \in Range(l.savedIds) THEN DocOf(l, p)
                      ELSE InitPlayer(p)
      /\ matchDocs[l.opts.matchId] =
           IF l.status = "returned" /\ l.ratingChanges # <<>>
           THEN MatchPayload(l.ratingChanges) ELSE <<>>
      /\ \A k \in DOMAIN l.ratingChanges :
           LET c == l.ratingChanges[k] IN
           /\ c.userId \in Range(InputIds(l))
           /\ c.after = Max(0, InitPlayer(c.userId).rating + c.delta)
      /\ (l.kind = "1v1" /\ ~l.opts.isDraw /\ l.ratingChanges # <<>>) =>
           LET o == l.opts
               alone == calculateElo(InitRating(o.winnerUserId),
                                     InitRating(o.loserUserId),
                                     o.winnerSolveMs, o.matchDurationMs,
                                     o.winnerAttempts, o.loserAttempts)
           IN  /\ l.ratingChanges[1].delta = alone.winnerDelta
               /\ l.ratingChanges[2].delta = alone.loserDelta

\* A head-to-head and a battle-royale settlement over different players are
\* both in flight, each with one save done and one to come.
C18_Witness ==
  \E s, t \in DOMAIN sett :
    /\ s # t /\ Disjoint(sett[s], sett[t])
    /\ sett[s].kind = "1v1" /\ sett[t].kind = "br"
    /\ sett[s].status = "running" /\ Len(sett[s].savedIds) = 1
    /\ sett[t].status = "running" /\ Len(sett[t].savedIds) = 1
    /\ Len(sett[t].opts.rankings) = 2

(***************************************************************************)
(* C19  Nothing keeps two settlements that share a player from both        *)
(* loading that player before either saves.  When they have, and both have *)
(* saved, the stored record is the whole record of one of them: matches is *)
(* one above the loaded value, not two, and the stored history holds the   *)
(* entry of one settlement only.                                           *)
(***************************************************************************)
BothLoadedBeforeSave(a, b, p) ==
  /\ p \in Range(a.savedIds) /\ p \in Range(b.savedIds)
  /\ a.loaded[p] = b.loaded[p]

C19_LostUpdate ==
  \A s, t \in DOMAIN sett : \A p \in DOMAIN store :
    (s # t /\ BothLoadedBeforeSave(sett[s], sett[t], p)) =>
      LET a == sett[s]
          b == sett[t]
          h == store[p].ratingHistory
      IN
      /\ store[p] \in {DocOf(a, p), DocOf(b, p)}
      /\ store[p].matches = a.loaded[p].matches + 1
      /\ Len(h) = Len(a.loaded[p].ratingHistory) + 1
      /\ Cardinality({k \in DOMAIN h : h[k].timestamp \in {a.now, b.now}}) = 1
      /\ h[Len(h)].matchId \in {a.opts.matchId, b.opts.matchId}

\* Both settlements returned after saving the shared player from the same
\* loaded record.
C19_Witness ==
  \E s, t \in DOMAIN sett : \E p \in DOMAIN store :
    /\ s # t /\ BothLoadedBeforeSave(sett[s], sett[t], p)
    /\ sett[s].status = "returned" /\ sett[t].status = "returned"
    /\ sett[s].kind = "2v2" /\ sett[t].kind = "1v1"
    /\ store[p] = DocOf(sett[s], p)

(***************************************************************************)
(* C20  Two players rated 1000 (K = 40), winner's solve time 0, match      *)
(* duration 1 800 000 ms, no wrong attempts: the winner's delta is +20,    *)
(* the loser's -20, and the ratings become 1020 and 980.                   *)
(***************************************************************************)
EvenMatchArgs ==
  [winnerRating |-> 1000, loserRating |-> 1000, solveTimeMs |-> 0,
   matchDurationMs |-> 1800000, winnerAttempts |-> 0, loserAttempts |-> 0]

C20_EvenMatch ==
  \A s \in DOMAIN sett :
    LET l == sett[s] IN
    (l.kind = "calculateElo" /\ l.pc = "done" /\ l.opts = EvenMatchArgs) =>
      /\ getKFactor(l.opts.winnerRating) = 40
      /\ l.result = [winnerDelta |-> 20, loserDelta |-> 0 - 20,
                     winnerNewRating |-> 1020, loserNewRating |-> 980]

\* calculateElo has returned for the arguments of the example.
C20_Witness ==
  \E s \in DOMAIN sett :
    /\ sett[s].kind = "calculateElo" /\ sett[s].pc = "done"
    /\ sett[s].opts = EvenMatchArgs
    /\ sett[s].result.winnerNewRating = 1020

(***************************************************************************)
(* C21  A player rated 2200 (K = 16) beats a player rated 1000 with solve  *)
(* time 0 in a match of 1 800 000 ms and no wrong attempts.                *)
(***************************************************************************)
FavouriteArgs ==
  [winnerRating |-> 2200, loserRating |-> 1000, solveTimeMs |-> 0,
   matchDurationMs |-> 1800000, winnerAttempts |-> 0, loserAttempts |-> 0]

FavouriteReturned(l) ==
  l.kind = "calculateElo" /\ l.pc = "done" /\ l.opts = FavouriteArgs

\* C21 as stated: the winner gets the time bonus 10, so delta 10 and new
\* rating 2210.
C21_FavouriteBonus ==
  \A s \in DOMAIN sett :
    FavouriteReturned(sett[s]) =>
      /\ sett[s].result.winnerDelta = 10
      /\ sett[s].result.winnerNewRating = 2210

\* C21 amended: a solve time of 0 earns no time bonus, so the winner's delta
\* is round(16 * (1 - E)) = 0 and the rating stays 2200; the loser's delta is
\* 0 as well.
C21_FavouriteNoBonus ==
  \A s \in DOMAIN sett :
    FavouriteReturned(sett[s]) =>
      /\ getKFactor(sett[s].opts.winnerRating) = 16
      /\ TimeModS(<<1, 1>>, sett[s].opts.solveTimeMs,
                  sett[s].opts.matchDurationMs) = 0
      /\ sett[s].result = [winnerDelta |-> 0, loserDelta |-> 0,
                           winnerNewRating |-> 2200, loserNewRating |-> 1000]

\* calculateElo has returned for the arguments of the example.
C21_Witness ==
  \E s \in DOMAIN sett :
    FavouriteReturned(sett[s]) /\ sett[s].result.winnerNewRating = 2200

(***************************************************************************)
(* C22  Team deltas against the member's own K-factor.                     *)
(***************************************************************************)
Abs(x) == IF x < 0 THEN 0 - x ELSE x

TeamReturned(l) == l.kind = "calculateTeamElo" /\ l.pc = "done"

\* C22 as stated: every member's delta, on either side, has magnitude at
\* most that member's own K-factor.
C22_DeltaWithinK ==
  \A s \in DOMAIN sett :
    LET l == sett[s] IN
    TeamReturned(l) =>
      /\ \A i \in DOMAIN l.opts.team1Ratings :
           Abs(l.result.team1Deltas[i]) <= getKFactor(l.opts.team1Ratings[i])
      /\ \A i \in DOMAIN l.opts.team2Ratings :
           Abs(l.result.team2Deltas[i]) <= getKFactor(l.opts.team2Ratings[i])

\* C22 amended: a member of the side that lost has -K <= delta <= 0; a
\* member of the side that won has -5 <= delta <= K + 10, the time bonus
\* coming on top of the K-bounded base.
WonWithin(delta, rating) == 0 - 5 <= delta /\ delta <= getKFactor(rating) + 10

LostWithin(delta, rating) == 0 - getKFactor(rating) <= delta /\ delta <= 0

C22_DeltaWithinKPlusBonus ==
  \A s \in DOMAIN sett :
    LET l == sett[s]
        a == l.opts
    IN
    TeamReturned(l) =>
      /\ \A i \in DOMAIN a.team1Ratings :
           IF a.team1Won
           THEN WonWithin(l.result.team1Deltas[i], a.team1Ratings[i])
           ELSE LostWithin(l.result.team1Deltas[i], a.team1Ratings[i])
      /\ \A i \in DOMAIN a.team2Ratings :
           IF a.team1Won
           THEN LostWithin(l.result.team2Deltas[i], a.team2Ratings[i])
           ELSE WonWithin(l.result.team2Deltas[i], a.team2Ratings[i])

\* A member of the winning side gained exactly K + 10, and a member of the
\* losing side of the same call lost points.
C22_Witness ==
  \E s \in DOMAIN sett :
    LET l == sett[s] IN
    /\ TeamReturned(l) /\ l.opts.team1Won
    /\ \E i \in DOMAIN l.opts.team1Ratings :
         l.result.team1Deltas[i] = getKFactor(l.opts.team1Ratings[i]) + 10
    /\ \E i \in DOMAIN l.opts.team2Ratings : l.result.team2Deltas[i] < 0

(***************************************************************************)
(* C23  The K-factor is 50 below 800, 40 from 800 to 1199, 32 from 1200 to *)
(* 1999 and 16 from 2000 on, for every rating from 0 up, and the delta of  *)
(* a call is the one computed with the K-factor of the rating the player   *)
(* is passed with.                                                         *)
(***************************************************************************)
KTable(r) ==
  CASE r \in 0..799 -> 50
    [] r \in 800..1199 -> 40
    [] r \in 1200..1999 -> 32
    [] r >= 2000 -> 16

DeltaReturned(l) == l.kind = "calculateEloDelta" /\ l.pc = "done"

C23_KStep ==
  \A s \in DOMAIN sett :
    LET l == sett[s]
        a == l.opts
    IN
    DeltaReturned(l) =>
      /\ getKFactor(a.playerRating) = KTable(a.playerRating)
      /\ l.result.delta =
           MathRound(KTable(a.playerRating)
                       * ((a.outcome[1] * Scale) \div a.outcome[2]
                          - ExpectedS(a.playerRating, a.opp))
                     + TimeModS(a.outcome, a.solveTimeMs, a.matchDurationMs)
                     + AttemptsModS(a.outcome, a.wrongAttempts))

\* A player rated exactly 1200 lost to one rated 1000 and was charged with
\* K = 32, not 40: round(-32 * 0.7597) = -24.
C23_Witness ==
  \E s \in DOMAIN sett :
    LET l == sett[s] IN
    /\ DeltaReturned(l)
    /\ l.opts.playerRating = 1200 /\ l.opts.opp = <<1000, 1>>
    /\ l.opts.outcome = <<0, 1>> /\ l.opts.wrongAttempts = 0
    /\ l.result.delta = 0 - 24

(***************************************************************************)
(* C24  For a field of N entries the battle-royale outcome is              *)
(* 1 - (position - 1) / max(1, N - 1): the divisor is never 0, position 1  *)
(* scores 1 for every N >= 1 (N = 1 included), position N scores 0 for     *)
(* every N >= 2, and the delta is the single-player delta of that outcome. *)
(***************************************************************************)
BattleRoyaleReturned(l) == l.kind = "calculateBattleRoyaleElo" /\ l.pc = "done"

C24_Outcome ==
  \A s \in DOMAIN sett :
    LET l == sett[s]
        a == l.opts
        o == l.result.outcome
        score(out) == calculateEloDelta(a.playerRating, a.avgFieldRating, out,
                                        a.solveTimeMs, a.matchDurationMs,
                                        a.wrongAttempts)
    IN
    BattleRoyaleReturned(l) =>
      /\ o[2] > 0
      /\ o[2] = (IF a.totalPlayers >= 2 THEN a.totalPlayers - 1 ELSE 1)
      /\ o[1] = o[2] - (a.position - 1)
      /\ a.position = 1 => o[1] = o[2] /\ l.result.delta = score(<<1, 1>>)
      /\ (a.position = a.totalPlayers /\ a.totalPlayers >= 2)
           => o[1] = 0 /\ l.result.delta = score(<<0, 1>>)
      /\ a.totalPlayers = 1 => o = <<1, 1>>
      /\ l.result.delta = score(o)

\* The only player of a field of one scored a win with a time bonus.
C24_Witness ==
  \E s \in DOMAIN sett :
    LET l == sett[s] IN
    /\ BattleRoyaleReturned(l)
    /\ l.opts.totalPlayers = 1 /\ l.result.outcome = <<1, 1>>
    /\ l.opts.solveTimeMs > 0 /\ l.result.delta > 0

(***************************************************************************)
(* C25  A settlement invokes the match update only when every save it      *)
(* issued has completed and every participant with a record is saved: in   *)
(* every state, also after a failure or a crash, a settlement that has     *)
(* invoked the update has all of them stored with their match counted, and *)
(* the match documents change only in a step of a settlement in that       *)
(* condition.  The reverse, players saved and the summary not written, is  *)
(* the only inconsistency.                                                 *)
(***************************************************************************)
AllSaved(l) ==
  /\ l.pending = {}
  /\ Range(l.issued) = Range(l.savedIds)
  /\ Range(ResolvedIds(l)) = Range(l.savedIds)
  /\ \A p \in Range(l.savedIds) : store[p].matches = l.loaded[p].matches + 1

C25_SummaryAfterSavesState ==
  \A s \in Slots :
    LET l == sett[s] IN
    l.matchCalls # <<>> =>
      /\ AllSaved(l)
      /\ Len(l.matchCalls) = 1
      /\ Len(l.matchCalls[1]) = Len(l.savedIds)

C25_SummaryAfterSaves ==
  /\ []C25_SummaryAfterSavesState
  /\ [][matchDocs' # matchDocs =>
          \E s \in Slots : sett[s].pc = "matchUpdate" /\ AllSaved(sett[s])]_vars

\* The process died after the last save of a settlement and before its
\* match update: the players are updated, the match document still holds
\* the summary of the settlement before.
C25_Witness ==
  \E s \in Slots :
    LET l == sett[s] IN
    /\ l.status = "crashed" /\ l.matchCalls = <<>>
    /\ l.opts.matchId # NoMatch
    /\ Len(l.savedIds) >= 2 /\ AllSaved(l)
    /\ l.kind = "2v2"
    /\ matchDocs[l.opts.matchId] # <<>>

(***************************************************************************)
(* C26  The delta carries a time bonus only for outcome 1 with a positive  *)
(* solve time and a positive match duration; the bonus is then             *)
(* 10 - 15 * min(1, solveTimeMs / matchDurationMs), between -5 and +10.    *)
(* For every other call (a loss, a draw, a lower battle-royale place, a    *)
(* win with solve time 0 or duration 0) the delta is the one of solve      *)
(* time 0: the solve time has no influence.                                *)
(***************************************************************************)
Min(a, b) == IF a <= b THEN a ELSE b

\* 10 - 15 * min(1, solve / duration) in fixed point, for duration > 0.
TimeBonusS(solveTimeMs, matchDurationMs) ==
  LET g == GCD(solveTimeMs, matchDurationMs)
      num == Min(solveTimeMs, matchDurationMs) \div g
      den == matchDurationMs \div g
  IN  10 * Scale - (15 * Scale * num) \div den

C26_TimeBonus ==
  \A s \in DOMAIN sett :
    LET l == sett[s]
        a == l.opts
        baseS == getKFactor(a.playerRating)
                   * ((a.outcome[1] * Scale) \div a.outcome[2]
                      - ExpectedS(a.playerRating, a.opp))
        earned == /\ a.outcome[1] = a.outcome[2]
                  /\ a.solveTimeMs > 0 /\ a.matchDurationMs > 0
    IN
    DeltaReturned(l) =>
      IF earned
      THEN LET b == TimeBonusS(a.solveTimeMs, a.matchDurationMs) IN
           /\ (0 - 5) * Scale <= b /\ b <= 10 * Scale
           /\ l.result.delta =
                MathRound(baseS + b
                          + AttemptsModS(a.outcome, a.wrongAttempts))
      ELSE l.result.delta =
             MathRound(baseS + AttemptsModS(a.outcome, a.wrongAttempts))

\* A win solved at half the duration earned 2.5 on top of the base 20, and
\* the call returned 23 (round(22.5)).
C26_Witness ==
  \E s \in DOMAIN sett :
    LET l == sett[s] IN
    /\ DeltaReturned(l)
    /\ l.opts.playerRating = 1000 /\ l.opts.opp = <<1000, 1>>
    /\ l.opts.outcome = <<1, 1>> /\ l.opts.wrongAttempts = 0
    /\ l.opts.solveTimeMs = 900000 /\ l.opts.matchDurationMs = 1800000
    /\ l.result.delta = 23

(***************************************************************************)
(* C27  In a team settlement every event's delta is the single-player      *)
(* delta of the member's loaded rating against the mean of the loaded      *)
(* ratings of the opposing side, with outcome 1 and the team solve time    *)
(* for a member of the winning side, outcome 0 and solve time 0 for a      *)
(* member of the other; for the latter the delta is the same whatever      *)
(* solve time is put in.                                                   *)
(***************************************************************************)
\* <<sum, count>> of the loaded ratings of those of ids that have a record.
LoadedMean(l, ids) ==
  LET found == SelectSeq(ids, LAMBDA q : q \in DOMAIN l.loaded)
  IN  <<SumSeq([k \in DOMAIN found |-> l.loaded[found[k]].rating]),
        Len(found)>>

C27_TeamDelta ==
  \A s \in Slots :
    LET l == sett[s] IN
    l.kind = "2v2" =>
      \A k \in DOMAIN l.ratingChanges :
        LET c == l.ratingChanges[k]
            o == l.opts
            r == l.loaded[c.userId].rating
        IN
        IF c.userId \in Range(o.winningTeamIds)
        THEN c.delta = calculateEloDelta(r, LoadedMean(l, o.losingTeamIds),
                                         <<1, 1>>, o.solveMs,
                                         o.matchDurationMs, 0)
        ELSE /\ c.delta = calculateEloDelta(r,
                                            LoadedMean(l, o.winningTeamIds),
                                            <<0, 1>>, 0, o.matchDurationMs, 0)
             /\ c.delta = calculateEloDelta(r,
                                            LoadedMean(l, o.winningTeamIds),
                                            <<0, 1>>, o.solveMs,
                                            o.matchDurationMs, 0)

\* One winner against two losers with different ratings: the winner's event
\* is measured against their mean and carries the time bonus.
C27_Witness ==
  \E s \in Slots :
    LET l == sett[s] IN
    /\ l.kind = "2v2" /\ l.status = "returned" /\ Len(l.ratingChanges) = 3
    /\ Len(l.opts.winningTeamIds) = 1 /\ Len(l.opts.losingTeamIds) = 2
    /\ LET w == l.opts.winningTeamIds[1] IN
         /\ EventOf(l, w).delta
              # calculateEloDelta(l.loaded[w].rating,
                                  LoadedMean(l, l.opts.losingTeamIds),
                                  <<1, 1>>, 0, l.opts.matchDurationMs, 0)
         /\ l.loaded[l.opts.losingTeamIds[1]].rating
              # l.loaded[l.opts.losingTeamIds[2]].rating

(***************************************************************************)
(* C28  A battle-royale settlement takes the field average once, over the  *)
(* loaded ratings of all participants that have a record, and every        *)
(* event's delta is the battle-royale delta of the participant's loaded    *)
(* rating against that one average: no rating saved earlier in the         *)
(* settlement enters a later delta.  With no participant resolved the      *)
(* average is 0 / 1 = 0.                                                   *)
(***************************************************************************)
C28_FieldAverage ==
  \A s \in Slots :
    LET l == sett[s]
        o == l.opts
        mean == LoadedMean(l, InputIds(l))
    IN
    (l.kind = "br" /\ l.pc \notin {"findUsers", "crashed"}) =>
      /\ l.avgField[2] > 0
      /\ l.avgField = IF mean[2] = 0 THEN <<0, 1>> ELSE mean
      /\ \A k \in DOMAIN l.ratingChanges :
           LET c == l.ratingChanges[k] IN
           \A j \in DOMAIN o.rankings :
             o.rankings[j].userId = c.userId =>
               c.delta =
                 calculateBattleRoyaleElo(
                   l.loaded[c.userId].rating, l.avgField,
                   o.rankings[j].position, Len(o.rankings),
                   o.rankings[j].solveTimeMs,
                   OrDefault(o.matchDurationMs, BRDefaultDurationMs),
                   o.rankings[j].wrongAttempts).delta

\* The last of three was saved after the other two had changed rating, and
\* in the same behaviour a settlement with no resolvable participant had
\* returned nothing before.
C28_Witness ==
  \E s \in Slots :
    LET l == sett[s] IN
    /\ l.kind = "br" /\ l.status = "returned" /\ Len(l.ratingChanges) = 3
    /\ \A k \in 1..2 :
         store[l.ratingChanges[k].userId].rating
           # l.loaded[l.ratingChanges[k].userId].rating
    /\ l.ratingChanges[3].delta # 0

(***************************************************************************)
(* C29  A draw settlement gives each of the two players the delta of       *)
(* outcome 1/2 with solve time 0 against the other's loaded rating, adds 1 *)
(* to draws and to matches, sets streak to 0, and leaves wins, losses, xp, *)
(* coins, longestStreak and lastPlayDate as they were loaded.              *)
(***************************************************************************)
DrawFrame(u, b, other, attempts, delta) ==
  /\ delta = calculateEloDelta(b.rating, <<other.rating, 1>>, <<1, 2>>, 0,
                               DefaultDurationMs, attempts)
  /\ u.rating = Max(0, b.rating + delta)
  /\ u.draws = b.draws + 1
  /\ u.matches = b.matches + 1
  /\ u.streak = 0
  /\ u.wins = b.wins
  /\ u.losses = b.losses
  /\ u.xp = b.xp
  /\ u.coins = b.coins
  /\ u.longestStreak = b.longestStreak
  /\ u.lastPlayDate = b.lastPlayDate

C29_Draw ==
  \A s \in Slots :
    LET l == sett[s]  o == l.opts IN
    (l.kind = "1v1" /\ l.pc # "crashed" /\ l.ratingChanges # <<>>
       /\ o.isDraw) =>
      LET w == l.docsA[1]
          lo == l.docsB[1]
          bw == l.loaded[o.winnerUserId]
          bl == l.loaded[o.loserUserId]
      IN  /\ DrawFrame(w, bw, bl, o.winnerAttempts, l.ratingChanges[1].delta)
          /\ DrawFrame(lo, bl, bw, o.loserAttempts, l.ratingChanges[2].delta)
          /\ \A k \in DOMAIN l.savedIds :
                LET p == l.savedIds[k] IN
                  DrawFrame(store[p], l.loaded[p],
                            l.loaded[IF p = o.winnerUserId
                                     THEN o.loserUserId ELSE o.winnerUserId],
                            IF p = o.winnerUserId
                            THEN o.winnerAttempts ELSE o.loserAttempts,
                            l.ratingChanges[IF p = o.winnerUserId
                                            THEN 1 ELSE 2].delta)

\* A draw returned with both records saved; the first player came with a
\* streak and a win, which the draw ended, and gained rating.
C29_Witness ==
  \E s \in Slots :
    LET l == sett[s]  o == l.opts IN
    /\ l.kind = "1v1" /\ l.status = "returned" /\ o.isDraw
    /\ Len(l.savedIds) = 2
    /\ l.loaded[o.winnerUserId].streak > 0
    /\ l.loaded[o.winnerUserId].wins > 0
    /\ store[o.winnerUserId].streak = 0
    /\ store[o.winnerUserId].draws = l.loaded[o.winnerUserId].draws + 1
    /\ l.ratingChanges[1].delta # 0

=============================================================================
